---- MODULE Spec2Model ----
(***************************************************************************)
(* A model of the Iridium toolchain: the opcode catalog, the bytecode      *)
(* emitter, the two-pass assembler driver and the bytecode interpreter.    *)
(* Text is modelled as sequences of ASCII codes, bytecode as sequences of  *)
(* numbers 0..255.                                                         *)
(***************************************************************************)
EXTENDS Integers, Sequences, FiniteSets, TLC

VARIABLES
    asm,        \* the Assembler object (its fields as a record)
    src,        \* the parsed Program handed to assemble (sequence of rows)
    apc,        \* position inside assemble: idle, first, second, done, exit
    idx,        \* loop index of the pass that is running (1-based)
    assembled_program, \* local of assemble: the header, later header + body
    body,       \* local of process_second_phase: the bytes emitted so far
    result,     \* what assemble returned: none, Ok(bytes) or Err(errors)
    vm,         \* the VM object (its fields as a record)
    vpc,        \* position of the VM's caller: new, loaded, running, halted, panic
    build,      \* how the binary was compiled: debug or release
    fn_arg,     \* input of a pure function applied on its own
    fn_ret      \* its result

vars ==
    << asm, src, apc, idx, assembled_program, body, result, vm, vpc, build,
       fn_arg, fn_ret >>

None == [tag |-> "None"]
Some(v) == [tag |-> "Some", val |-> v]
IsSome(o) == o.tag = "Some"

(***************************************************************************)
(* Bounds of the model.                                                    *)
(***************************************************************************)
MaxRows == 3        \* rows of an assembled program
MaxImm == 66000     \* largest integer literal tried on the emitter
MaxLoads == 2       \* load rows of a program that is assembled and run
MaxHeap == 1030     \* largest heap a modelled ALOC may produce
MaxReg == 2         \* highest register named by those load rows
MaxSymbols == 3     \* symbols added to a symbol table used on its own

(***************************************************************************)
(* Opcode catalog (instruction.rs).                                        *)
(***************************************************************************)
\* The enum, in declaration order: `code as u8` is the position, from 0.
Opcode ==
    << "HLT", "LOAD", "ADD", "SUB", "MUL", "DIV", "JMP", "JMPF", "JMPB",
       "EQ", "NEQ", "GT", "LT", "GTQ", "LTQ", "JEQ", "JNEQ", "ALOC",
       "INC", "DEC", "PRTS", "IGL" >>

Opcodes == { Opcode[k] : k \in DOMAIN Opcode }

\* `code as u8`
OpcodeAsU8(code) == (CHOOSE k \in DOMAIN Opcode : Opcode[k] = code) - 1

\* A decoder that mixes up JMPF and JMPB.
OpcodeFromU8_swapped(v) ==
    CASE v = 7 -> "JMPB" [] v = 8 -> "JMPF"
      [] v \in 0..20 -> Opcode[v + 1]
      [] OTHER -> "IGL"

\* impl From<u8> for Opcode
OpcodeFromU8(v) ==
    CASE v = 0 -> "HLT"
      [] v = 1 -> "LOAD"
      [] v = 2 -> "ADD"
      [] v = 3 -> "SUB"
      [] v = 4 -> "MUL"
      [] v = 5 -> "DIV"
      [] v = 6 -> "JMP"
      [] v = 7 -> "JMPF"
      [] v = 8 -> "JMPB"
      [] v = 9 -> "EQ"
      [] v = 10 -> "NEQ"
      [] v = 11 -> "GT"
      [] v = 12 -> "LT"
      [] v = 13 -> "GTQ"
      [] v = 14 -> "LTQ"
      [] v = 15 -> "JEQ"
      [] v = 16 -> "JNEQ"
      [] v = 17 -> "ALOC"
      [] v = 18 -> "INC"
      [] v = 19 -> "DEC"
      [] v = 20 -> "PRTS"
      [] OTHER -> "IGL"

\* ASCII lowercase of one character code.
LowerChar(c) == IF c \in 65..90 THEN c + 32 ELSE c
\* str::to_lowercase on ASCII text
ToLowercase(s) == [k \in DOMAIN s |-> LowerChar(s[k])]
UpperChar(c) == IF c \in 97..122 THEN c - 32 ELSE c
ToUppercase(s) == [k \in DOMAIN s |-> UpperChar(s[k])]

\* The spelling of each variant of the enum, in lower case.
Mnemonic ==
    [ HLT |-> <<104, 108, 116>>, LOAD |-> <<108, 111, 97, 100>>,
      ADD |-> <<97, 100, 100>>, SUB |-> <<115, 117, 98>>,
      MUL |-> <<109, 117, 108>>, DIV |-> <<100, 105, 118>>,
      JMP |-> <<106, 109, 112>>, JMPF |-> <<106, 109, 112, 102>>,
      JMPB |-> <<106, 109, 112, 98>>, EQ |-> <<101, 113>>,
      NEQ |-> <<110, 101, 113>>, GT |-> <<103, 116>>, LT |-> <<108, 116>>,
      GTQ |-> <<103, 116, 113>>, LTQ |-> <<108, 116, 113>>,
      JEQ |-> <<106, 101, 113>>, JNEQ |-> <<106, 110, 101, 113>>,
      ALOC |-> <<97, 108, 111, 99>>, INC |-> <<105, 110, 99>>,
      DEC |-> <<100, 101, 99>>, PRTS |-> <<112, 114, 116, 115>>,
      IGL |-> <<105, 103, 108>> ]

\* impl From<CompleteStr> for Opcode
OpcodeFromStr(v) ==
    LET lower == ToLowercase(v) IN
    CASE lower = <<104, 108, 116>> -> "HLT"
      [] lower = <<108, 111, 97, 100>> -> "LOAD"
      [] lower = <<97, 100, 100>> -> "ADD"
      [] lower = <<115, 117, 98>> -> "SUB"
      [] lower = <<109, 117, 108>> -> "MUL"
      [] lower = <<100, 105, 118>> -> "DIV"
      [] lower = <<106, 109, 112>> -> "JMP"
      [] lower = <<106, 109, 112, 102>> -> "JMPF"
      [] lower = <<106, 109, 112, 98>> -> "JMPB"
      [] lower = <<101, 113>> -> "EQ"
      [] lower = <<110, 101, 113>> -> "NEQ"
      [] lower = <<103, 116>> -> "GT"
      [] lower = <<108, 116>> -> "LT"
      [] lower = <<103, 116, 113>> -> "GTQ"
      [] lower = <<108, 116, 113>> -> "LTQ"
      [] lower = <<106, 101, 113>> -> "JEQ"
      [] lower = <<106, 110, 101, 113>> -> "JNEQ"
      [] lower = <<112, 114, 116, 115>> -> "PRTS"
      [] OTHER -> "IGL"

(***************************************************************************)
(* Tokens and rows (assembler/mod.rs, the parsers).                        *)
(***************************************************************************)
\* Names used by the programs of the model, as ASCII text.
T_data == <<100, 97, 116, 97>>
T_code == <<99, 111, 100, 101>>
T_wrong == <<119, 114, 111, 110, 103>>
T_asciiz == <<97, 115, 99, 105, 105, 122>>
T_word == <<119, 111, 114, 100>>
T_foo == <<102, 111, 111>>
T_bar == <<98, 97, 114>>
T_Hi == <<72, 105>>
T_illegal == <<105, 108, 108, 101, 103, 97, 108>>
T_nop == <<110, 111, 112>>
T_jmpe == <<106, 109, 112, 101>>
T_test == <<116, 101, 115, 116>>

\* enum Token
Op(code) == [tag |-> "Op", code |-> code]
Register(r) == [tag |-> "Register", reg_num |-> r]
IntegerOperand(v) == [tag |-> "IntegerOperand", value |-> v]
LabelDeclaration(n) == [tag |-> "LabelDeclaration", name |-> n]
LabelUsage(n) == [tag |-> "LabelUsage", name |-> n]
Directive(n) == [tag |-> "Directive", name |-> n]
IrString(n) == [tag |-> "IrString", name |-> n]

\* opcode_load: alphabetic text to an Op token
opcode_load(text) == Op(OpcodeFromStr(text))

\* Operand k of a list of at most three, as an Option.
OperandAt(ops, k) == IF k <= Len(ops) THEN Some(ops[k]) ELSE None

\* An instruction row `[label:] mnemonic operands`.
InstructionRow(label, mnemonic, ops) ==
    [ label |-> label,
      opcode |-> Some(opcode_load(mnemonic)),
      directive |-> None,
      operand1 |-> OperandAt(ops, 1),
      operand2 |-> OperandAt(ops, 2),
      operand3 |-> OperandAt(ops, 3) ]

\* directive_combined: a row `[label:] .name operands`.
directive_combined(label, name, ops) ==
    [ label |-> label,
      opcode |-> None,
      directive |-> Some(Directive(name)),
      operand1 |-> OperandAt(ops, 1),
      operand2 |-> OperandAt(ops, 2),
      operand3 |-> OperandAt(ops, 3) ]

\* Accessors of AssemblerInstruction.
is_label(i) == IsSome(i.label)
is_opcode(i) == IsSome(i.opcode)
is_directive(i) == IsSome(i.directive)
has_operands(i) == IsSome(i.operand1) \/ IsSome(i.operand2) \/ IsSome(i.operand3)
get_label_name(i) ==
    IF IsSome(i.label) /\ i.label.val.tag = "LabelDeclaration"
    THEN Some(i.label.val.name) ELSE None
get_directive_name(i) ==
    IF IsSome(i.directive) /\ i.directive.val.tag = "Directive"
    THEN Some(i.directive.val.name) ELSE None
get_string_constant(i) ==
    IF IsSome(i.operand1) /\ i.operand1.val.tag = "IrString"
    THEN Some(i.operand1.val.name) ELSE None

(***************************************************************************)
(* Bytecode emitter (assembler/instruction_parsers.rs).                    *)
(* An emitter result is [exit, bytes]: exit is std::process::exit(1).      *)
(***************************************************************************)
\* `value as u16` for a non-negative i32
AsU16(value) == value % 65536
\* `x as u8` for a non-negative number
AsU8(x) == x % 256

\* An emitter that pushes the low byte first.
extract_operand_low_first(t, results) ==
    CASE t.tag = "Register" ->
            [exit |-> FALSE, bytes |-> Append(results, t.reg_num)]
      [] t.tag = "IntegerOperand" ->
            LET converted == AsU16(t.value) IN
            [ exit |-> FALSE,
              bytes |-> results \o <<AsU8(converted), AsU8(converted \div 256)>> ]
      [] OTHER -> [exit |-> TRUE, bytes |-> results]

\* AssemblerInstruction::extract_operand
extract_operand(t, results) ==
    CASE t.tag = "Register" ->
            [exit |-> FALSE, bytes |-> Append(results, t.reg_num)]
      [] t.tag = "IntegerOperand" ->
            LET converted == AsU16(t.value)
                byte1 == converted
                byte2 == converted \div 256
            IN  [ exit |-> FALSE,
                  bytes |-> results \o <<AsU8(byte2), AsU8(byte1)>> ]
      [] OTHER -> [exit |-> TRUE, bytes |-> results]

\* One turn of the operand loop of to_bytes.
EmitOperand(acc, operand) ==
    IF acc.exit \/ ~IsSome(operand) THEN acc
    ELSE extract_operand(operand.val, acc.bytes)

\* AssemblerInstruction::to_bytes
to_bytes(i) ==
    IF ~(IsSome(i.opcode) /\ i.opcode.val.tag = "Op")
    THEN [exit |-> TRUE, bytes |-> <<>>]
    ELSE EmitOperand(EmitOperand(EmitOperand(
             [exit |-> FALSE, bytes |-> <<OpcodeAsU8(i.opcode.val.code)>>],
             i.operand1), i.operand2), i.operand3)

(***************************************************************************)
(* Symbol table (assembler/symbols.rs).                                    *)
(***************************************************************************)
\* Symbol::new
SymbolNew(name, symbol_type) ==
    [name |-> name, symbol_type |-> symbol_type, offset |-> None]

\* Symbol::new_with_offset
new_with_offset(name, symbol_type, offset) ==
    [name |-> name, symbol_type |-> symbol_type, offset |-> Some(offset)]

\* SymbolTable::add_symbol
add_symbol(symbols, s) == Append(symbols, s)

\* SymbolTable::has_symbol
has_symbol(symbols, s) == \E k \in DOMAIN symbols : symbols[k].name = s

\* SymbolTable::symbol_value
symbol_value(symbols, s) ==
    IF \E k \in DOMAIN symbols : symbols[k].name = s
    THEN LET first == CHOOSE k \in DOMAIN symbols :
                        /\ symbols[k].name = s
                        /\ \A j \in 1..(k - 1) : symbols[j].name # s
         IN  symbols[first].offset
    ELSE None

set_symbol_offset_all_matches(symbols, s, offset) ==
    [k \in DOMAIN symbols |->
        IF symbols[k].name = s THEN [symbols[k] EXCEPT !.offset = Some(offset)]
        ELSE symbols[k]]

\* SymbolTable::set_symbol_offset: the table afterwards (the bool it
\* returns is has_symbol of the name).
set_symbol_offset(symbols, s, offset) ==
    IF \E k \in DOMAIN symbols : symbols[k].name = s
    THEN LET first == CHOOSE k \in DOMAIN symbols :
                        /\ symbols[k].name = s
                        /\ \A j \in 1..(k - 1) : symbols[j].name # s
         IN  [symbols EXCEPT ![first].offset = Some(offset)]
    ELSE symbols

(***************************************************************************)
(* Assembler driver (assembler/mod.rs).  The operators below take the      *)
(* Assembler `a` and return it as the method leaves it.                    *)
(***************************************************************************)
PIE_HEADER_PREFIX == <<45, 50, 49, 45>>
PIE_HEADER_LENGTH == 64

\* impl From<&str> for AssemblerSection
AssemblerSectionFrom(name) ==
    CASE name = T_data -> [kind |-> "Data", starting_instruction |-> None]
      [] name = T_code -> [kind |-> "Code", starting_instruction |-> None]
      [] OTHER -> [kind |-> "Unknown"]

\* enum AssemblerError, as the driver builds its values
NoSegmentDeclarationFound(n) ==
    [kind |-> "NoSegmentDeclarationFound", instruction |-> n]
StringConstantDeclaredWithoutLabel(n) ==
    [kind |-> "StringConstantDeclaredWithoutLabel", instruction |-> n]
UnknownDirectiveFound(d) == [directive |-> d, kind |-> "UnknownDirectiveFound"]
SymbolAlreadyDeclared == [kind |-> "SymbolAlreadyDeclared"]
InsufficientSections == [kind |-> "InsufficientSections"]

\* Assembler::new
AssemblerNew ==
    [ symbols |-> <<>>,
      phase |-> "First",
      ro |-> <<>>,
      bytecode |-> <<>>,
      ro_offset |-> 0,
      sections |-> <<>>,
      current_section |-> None,
      current_instruction |-> 0,
      errors |-> <<>> ]

\* A header writer whose loop runs once too often (`<=` for `<`).
write_pie_header_one_more ==
    PIE_HEADER_PREFIX \o [k \in 1..(PIE_HEADER_LENGTH + 1 - Len(PIE_HEADER_PREFIX)) |-> 0]

\* Assembler::write_pie_header
write_pie_header ==
    PIE_HEADER_PREFIX \o [k \in 1..(PIE_HEADER_LENGTH - Len(PIE_HEADER_PREFIX)) |-> 0]

\* A label pass that adds the symbol without looking for an earlier one.
process_label_declaration_no_check(a, i) ==
    LET name == get_label_name(i) IN
    IF ~IsSome(name)
    THEN [a EXCEPT !.errors =
              Append(@, StringConstantDeclaredWithoutLabel(a.current_instruction))]
    ELSE [a EXCEPT !.symbols = add_symbol(@, SymbolNew(name.val, "Label"))]

\* Assembler::process_label_declaration
process_label_declaration(a, i) ==
    LET name == get_label_name(i) IN
    IF ~IsSome(name)
    THEN [a EXCEPT !.errors =
              Append(@, StringConstantDeclaredWithoutLabel(a.current_instruction))]
    ELSE IF has_symbol(a.symbols, name.val)
    THEN [a EXCEPT !.errors = Append(@, SymbolAlreadyDeclared)]
    ELSE [a EXCEPT !.symbols = add_symbol(@, SymbolNew(name.val, "Label"))]

\* A header handler that makes a section of any name.
process_section_header_any_name(a, header_name) ==
    LET new_section == AssemblerSectionFrom(header_name) IN
    [a EXCEPT !.sections = Append(@, new_section),
              !.current_section = Some(new_section)]

\* Assembler::process_section_header
process_section_header(a, header_name) ==
    LET new_section == AssemblerSectionFrom(header_name) IN
    IF new_section.kind = "Unknown" THEN a
    ELSE [a EXCEPT !.sections = Append(@, new_section),
                   !.current_section = Some(new_section)]

\* A string handler that leaves out the terminating zero byte.
handle_asciiz_unterminated(a, i) ==
    IF a.phase # "First" THEN a
    ELSE LET s == get_string_constant(i)
             name == get_label_name(i)
         IN  IF ~IsSome(s) THEN a
             ELSE IF ~IsSome(name) THEN a
             ELSE [a EXCEPT
                     !.symbols = set_symbol_offset(@, name.val, a.ro_offset),
                     !.ro = @ \o s.val,
                     !.ro_offset = @ + Len(s.val)]

\* A string handler that records the offset after the string was appended.
handle_asciiz_offset_after(a, i) ==
    IF a.phase # "First" THEN a
    ELSE LET s == get_string_constant(i)
             name == get_label_name(i)
         IN  IF ~IsSome(s) THEN a
             ELSE IF ~IsSome(name) THEN a
             ELSE [a EXCEPT
                     !.symbols = set_symbol_offset(@, name.val,
                                                   a.ro_offset + Len(s.val) + 1),
                     !.ro = @ \o s.val \o <<0>>,
                     !.ro_offset = @ + Len(s.val) + 1]

\* Assembler::handle_asciiz
handle_asciiz(a, i) ==
    IF a.phase # "First" THEN a
    ELSE LET s == get_string_constant(i)
             name == get_label_name(i)
         IN  IF ~IsSome(s) THEN a
             ELSE IF ~IsSome(name) THEN a
             ELSE [a EXCEPT
                     !.symbols = set_symbol_offset(@, name.val, a.ro_offset),
                     !.ro = @ \o s.val \o <<0>>,
                     !.ro_offset = @ + Len(s.val) + 1]

\* A directive handler that lets a directive it does not know pass.
process_directive_silent(a, i) ==
    LET directive_name == get_directive_name(i) IN
    IF ~IsSome(directive_name) THEN a
    ELSE IF has_operands(i)
    THEN IF directive_name.val = T_asciiz THEN handle_asciiz(a, i) ELSE a
    ELSE process_section_header(a, directive_name.val)

\* Assembler::process_directive
process_directive(a, i) ==
    LET directive_name == get_directive_name(i) IN
    IF ~IsSome(directive_name) THEN a
    ELSE IF has_operands(i)
    THEN IF directive_name.val = T_asciiz
         THEN handle_asciiz(a, i)
         ELSE [a EXCEPT !.errors =
                   Append(@, UnknownDirectiveFound(directive_name.val))]
    ELSE process_section_header(a, directive_name.val)

\* A first pass that stops looking at rows once an error is recorded.
FirstPhaseRow_stop_on_error(a, i) ==
    IF a.errors # <<>> THEN [a EXCEPT !.current_instruction = @ + 1]
    ELSE
    LET a1 == IF is_label(i)
              THEN IF IsSome(a.current_section)
                   THEN process_label_declaration(a, i)
                   ELSE [a EXCEPT !.errors =
                            Append(@, NoSegmentDeclarationFound(a.current_instruction))]
              ELSE a
        a2 == IF is_directive(i) THEN process_directive(a1, i) ELSE a1
    IN  [a2 EXCEPT !.current_instruction = @ + 1]

\* A first pass that lets a label through without a section.
FirstPhaseRow_no_gate(a, i) ==
    LET a1 == IF is_label(i) THEN process_label_declaration(a, i) ELSE a
        a2 == IF is_directive(i) THEN process_directive(a1, i) ELSE a1
    IN  [a2 EXCEPT !.current_instruction = @ + 1]

\* Assembler::process_first_phase, one turn of its loop over the rows
FirstPhaseRow(a, i) ==
    LET a1 == IF is_label(i)
              THEN IF IsSome(a.current_section)
                   THEN process_label_declaration(a, i)
                   ELSE [a EXCEPT !.errors =
                            Append(@, NoSegmentDeclarationFound(a.current_instruction))]
              ELSE a
        a2 == IF is_directive(i) THEN process_directive(a1, i) ELSE a1
    IN  [a2 EXCEPT !.current_instruction = @ + 1]

\* Assembler::process_second_phase, one turn of its loop: the Assembler
\* afterwards (the bytes are appended by the action).
SecondPhaseRow(a, i) ==
    LET a1 == IF is_directive(i) THEN process_directive(a, i) ELSE a
    IN  [a1 EXCEPT !.current_instruction = @ + 1]

(***************************************************************************)
(* Virtual machine (vm.rs).                                                *)
(* pc is a usize: a value of 2^63 or more (a negative i32 cast with        *)
(* `as usize`) is written as the negative number with the same bits.       *)
(* A step result is [vm, done, panic]: done is execute_instruction's       *)
(* return value, panic an index or arithmetic panic that ends the thread.  *)
(***************************************************************************)
NumRegisters == 32
INITIAL_PC == 65
I32Max == 2147483647
I32Min == -I32Max - 1

\* VM::new
VMNew ==
    [ registers |-> [r \in 0..(NumRegisters - 1) |-> 0],
      program |-> <<>>,
      heap |-> <<>>,
      pc |-> INITIAL_PC,
      remainder |-> 0,
      equal_flag |-> FALSE ]

\* VM::add_bytes (add_byte for each byte)
add_bytes(v, bytes) == [v EXCEPT !.program = @ \o bytes]

\* VM::verify_header: the first four bytes against the magic. Slicing a
\* program of fewer than four bytes panics (None). No code calls it.
verify_header(v) ==
    IF Len(v.program) < 4 THEN None
    ELSE Some(SubSeq(v.program, 1, 4) = PIE_HEADER_PREFIX)

\* pc >= n on usize
UsizeGE(pc, n) == pc < 0 \/ pc >= n
\* A sum taken from the address after the two pad bytes.
UsizeSum_past_padding(p, n) == IF n > I32Max - p - 2 THEN I32Max ELSE p + n + 2
\* p + n on usize for n >= 0. The model keeps a pc in 32 bits: a sum past
\* I32Max, far beyond any program of the model, is kept as I32Max.
UsizeSum(p, n) == IF n > I32Max - p THEN I32Max ELSE p + n
\* program[k] does not panic
InProgram(v, k) == k >= 0 /\ k < Len(v.program)
\* program[k]
ProgramAt(v, k) == v.program[k + 1]

next_16_bits_low_first(v, k) == ProgramAt(v, k) + ProgramAt(v, k + 1) * 256

\* VM::next_16_bits: the two bytes at k, the first one shifted left by 8
next_16_bits(v, k) == ProgramAt(v, k) * 256 + ProgramAt(v, k + 1)

\* i32 arithmetic: whether the exact result leaves the type, and the
\* two's complement result when it does.
AddOverflows(x, y) ==
    \/ y > 0 /\ x > I32Max - y
    \/ y < 0 /\ x < I32Min - y
WrappingAdd(x, y) ==
    IF y > 0 /\ x > I32Max - y THEN (x - I32Max - 1) + (y - I32Max - 1)
    ELSE IF y < 0 /\ x < I32Min - y THEN (x + I32Max + 1) + (y + I32Max + 1)
    ELSE x + y
\* x - y = x + (-y - 1) + 1, which never negates I32Min
SubOverflows(x, y) ==
    \/ y < 0 /\ x > I32Max + y
    \/ y > 0 /\ x < I32Min + y
\* The operands of `-` taken in the other order.
WrappingSub_reversed(x, y) ==
    IF x < 0 /\ y > I32Max + x THEN (y - I32Max - 1) - (x + I32Max + 1)
    ELSE IF x > 0 /\ y < I32Min + x THEN (y + I32Max + 1) - (x - I32Max - 1)
    ELSE y - x
WrappingSub(x, y) ==
    IF y < 0 /\ x > I32Max + y THEN (x - I32Max - 1) - (y + I32Max + 1)
    ELSE IF y > 0 /\ x < I32Min + y THEN (x + I32Max + 1) - (y - I32Max - 1)
    ELSE x - y
\* The four bytes of an i32, low byte first.
Limbs(x) ==
    << x % 256, (x \div 256) % 256, (x \div 65536) % 256,
       (x \div 16777216) % 256 >>
WrappingMul(x, y) ==
    LET a == Limbs(x)
        b == Limbs(y)
        c1 == a[1] * b[1]
        c2 == a[1] * b[2] + a[2] * b[1] + (c1 \div 256)
        c3 == a[1] * b[3] + a[2] * b[2] + a[3] * b[1] + (c2 \div 256)
        c4 == a[1] * b[4] + a[2] * b[3] + a[3] * b[2] + a[4] * b[1] + (c3 \div 256)
        top == c4 % 256
    IN  (IF top >= 128 THEN top - 256 ELSE top) * 16777216
        + (c3 % 256) * 65536 + (c2 % 256) * 256 + (c1 % 256)
Abs(x) == IF x < 0 THEN -x ELSE x
\* The exact product is below I32Min or above I32Max.
MulOverflows(x, y) ==
    IF x = 0 \/ y = 0 THEN FALSE
    ELSE IF x = I32Min THEN y # 1
    ELSE IF y = I32Min THEN x # 1
    ELSE LET most == I32Max \div Abs(y) IN
         IF (x < 0) = (y < 0) THEN Abs(x) > most
         ELSE ~(\/ Abs(x) <= most
                \/ Abs(x) = most + 1 /\ I32Max % Abs(y) = Abs(y) - 1)
\* Rust's `/` and `%` on i32: the quotient is rounded towards zero and the
\* remainder has the sign of the dividend.
TruncDiv(x, y) ==
    IF y = I32Min THEN (IF x = I32Min THEN 1 ELSE 0)
    ELSE LET q == x \div y IN
         IF x % Abs(y) # 0 /\ (x < 0) # (y < 0) THEN q + 1 ELSE q
\* `/` written where `%` is meant.
TruncRem_is_quotient(x, y) == TruncDiv(x, y)
TruncRem(x, y) == x - TruncDiv(x, y) * y

\* The flag of the comparison opcodes, with GTQ and LTQ strict.
CompareFlag_strict(op, register1, register2) ==
    CASE op = "EQ" -> register1 = register2
      [] op = "NEQ" -> register1 # register2
      [] op \in {"GT", "GTQ"} -> register1 > register2
      [] OTHER -> register1 < register2
\* The flag the arms EQ, NEQ, GT, LT, GTQ and LTQ compute.
CompareFlag(op, register1, register2) ==
    CASE op = "EQ" -> register1 = register2
      [] op = "NEQ" -> register1 # register2
      [] op = "GT" -> register1 > register2
      [] op = "LT" -> register1 < register2
      [] op = "GTQ" -> register1 >= register2
      [] OTHER -> register1 <= register2

\* The pc after JEQ and JNEQ with the sense of the flag inverted.
ConditionalTarget_inverted(op, flag, target, next) ==
    IF (op = "JEQ") # flag THEN target ELSE next
\* The pc after JEQ and JNEQ: the target when the flag allows the jump, else
\* the byte after the register byte.
ConditionalTarget(op, flag, target, next) ==
    IF (op = "JEQ") = flag THEN target ELSE next

\* Vec::resize to one byte less than asked.
Resize_one_short(heap, new_len) ==
    [k \in 1..(new_len - 1) |-> IF k <= Len(heap) THEN heap[k] ELSE 0]
\* Vec::resize(new_len, 0)
Resize(heap, new_len) ==
    [k \in 1..new_len |-> IF k <= Len(heap) THEN heap[k] ELSE 0]

Continue(v) == [vm |-> v, done |-> FALSE, panic |-> FALSE]
Halt(v) == [vm |-> v, done |-> TRUE, panic |-> FALSE]
Panic(v) == [vm |-> v, done |-> TRUE, panic |-> TRUE]

\* An arithmetic result stored without moving pc past the instruction.
StoreArith_keeps_pc(v, b, d, overflows, wrapped, newpc) ==
    IF overflows /\ b = "debug" THEN Panic(v)
    ELSE Continue([v EXCEPT !.registers[d] = wrapped])

\* An arithmetic result stored in register d: debug builds panic on overflow.
StoreArith(v, b, d, overflows, wrapped, newpc) ==
    IF overflows /\ b = "debug" THEN Panic(v)
    ELSE Continue([v EXCEPT !.registers[d] = wrapped, !.pc = newpc])

\* The arms of execute_instruction that read three register bytes.
ExecThreeRegisters(v, b, op) ==
    LET p == v.pc IN
    IF ~(InProgram(v, p + 1) /\ InProgram(v, p + 2) /\ InProgram(v, p + 3))
    THEN Panic(v)
    ELSE
    LET i1 == ProgramAt(v, p + 1)
        i2 == ProgramAt(v, p + 2)
        i3 == ProgramAt(v, p + 3)
    IN  IF i1 >= NumRegisters \/ i2 >= NumRegisters THEN Panic(v)
        ELSE
        LET register1 == v.registers[i1]
            register2 == v.registers[i2]
        IN  CASE op = "ADD" ->
                    IF i3 >= NumRegisters THEN Panic(v)
                    ELSE StoreArith(v, b, i3, AddOverflows(register1, register2),
                                    WrappingAdd(register1, register2), p + 4)
              [] op = "SUB" ->
                    IF i3 >= NumRegisters THEN Panic(v)
                    ELSE StoreArith(v, b, i3, SubOverflows(register1, register2),
                                    WrappingSub(register1, register2), p + 4)
              [] op = "MUL" ->
                    IF i3 >= NumRegisters THEN Panic(v)
                    ELSE StoreArith(v, b, i3, MulOverflows(register1, register2),
                                    WrappingMul(register1, register2), p + 4)
              [] op = "DIV" ->
                    IF \/ i3 >= NumRegisters
                       \/ register2 = 0
                       \/ (register1 = I32Min /\ register2 = -1)
                    THEN Panic(v)
                    ELSE Continue([v EXCEPT
                            !.registers[i3] = TruncDiv(register1, register2),
                            !.remainder = TruncRem(register1, register2),
                            !.pc = p + 4])
              [] OTHER ->
                    LET flag == CompareFlag(op, register1, register2)
                    IN  Continue([v EXCEPT !.equal_flag = flag, !.pc = p + 4])

\* The arms of execute_instruction that read one register byte.
ExecOneRegister(v, b, op) ==
    LET p == v.pc IN
    IF ~InProgram(v, p + 1) THEN Panic(v)
    ELSE
    LET register == ProgramAt(v, p + 1) IN
    IF register >= NumRegisters THEN Panic(v)
    ELSE
    LET value == v.registers[register] IN
    CASE op = "JMP" -> Continue([v EXCEPT !.pc = value])
      [] op = "JMPF" ->
            IF b = "debug" /\ value < 0 /\ p + 2 + value >= 0 THEN Panic(v)
            ELSE Continue([v EXCEPT !.pc = IF value < 0 THEN p + 2 + value
                                            ELSE UsizeSum(p + 2, value)])
      [] op = "JMPB" ->
            IF b = "debug" /\ (value < 0 \/ value > p + 2) THEN Panic(v)
            ELSE Continue([v EXCEPT !.pc = IF value >= 0 THEN p + 2 - value
                                            ELSE IF value = I32Min THEN I32Max
                                            ELSE UsizeSum(p + 2, -value)])
      [] op = "JEQ" ->
            Continue([v EXCEPT !.pc = ConditionalTarget(op, v.equal_flag, value, p + 2)])
      [] op = "JNEQ" ->
            Continue([v EXCEPT !.pc = ConditionalTarget(op, v.equal_flag, value, p + 2)])
      [] op = "ALOC" ->
            LET len == Len(v.heap)
                new_end == WrappingAdd(len, value)
            IN  IF AddOverflows(len, value) /\ b = "debug" THEN Panic(v)
                ELSE IF new_end < 0 THEN Panic(v)
                ELSE Continue([v EXCEPT
                        !.heap = Resize(v.heap, new_end),
                        !.pc = p + 2])
      [] op = "INC" ->
            StoreArith(v, b, register, AddOverflows(value, 1),
                       WrappingAdd(value, 1), p + 2)
      [] OTHER ->
            StoreArith(v, b, register, SubOverflows(value, 1),
                       WrappingSub(value, 1), p + 2)

\* VM::execute_instruction, in a binary built as b
execute_instruction(v, b) ==
    IF UsizeGE(v.pc, Len(v.program)) THEN Halt(v)
    ELSE
    LET p == v.pc
        op == OpcodeFromU8(ProgramAt(v, p))
    IN  CASE op = "HLT" -> Halt([v EXCEPT !.pc = p + 1])
          [] op = "LOAD" ->
                IF ~(InProgram(v, p + 1) /\ InProgram(v, p + 2) /\ InProgram(v, p + 3))
                THEN Panic(v)
                ELSE LET register == ProgramAt(v, p + 1)
                         number == next_16_bits(v, p + 2)
                     IN  IF register >= NumRegisters THEN Panic(v)
                         ELSE Continue([v EXCEPT !.registers[register] = number,
                                                 !.pc = p + 4])
          [] op \in {"ADD", "SUB", "MUL", "DIV", "EQ", "NEQ", "GT", "LT", "GTQ", "LTQ"} ->
                ExecThreeRegisters(v, b, op)
          [] op \in {"JMP", "JMPF", "JMPB", "JEQ", "JNEQ", "ALOC", "INC", "DEC"} ->
                ExecOneRegister(v, b, op)
          [] OTHER -> Halt([v EXCEPT !.pc = p + 1])

(***************************************************************************)
(* The programs and inputs the model tries.                                *)
(***************************************************************************)
\* The rows a program of the model is made of.
RowAlphabet ==
    << directive_combined(None, T_data, <<>>),                     \* .data
       directive_combined(None, T_code, <<>>),                     \* .code
       directive_combined(None, T_wrong, <<>>),                    \* .wrong
       InstructionRow(None, Mnemonic.HLT, <<>>),                   \* hlt
       InstructionRow(None, Mnemonic.LOAD,
                      <<Register(0), IntegerOperand(500)>>),       \* load $0 #500
       InstructionRow(Some(LabelDeclaration(T_foo)), Mnemonic.HLT, <<>>),
                                                                   \* foo: hlt
       InstructionRow(Some(LabelDeclaration(T_bar)), Mnemonic.ADD,
                      <<Register(0), Register(1), Register(2)>>),  \* bar: add $0 $1 $2
       directive_combined(Some(LabelDeclaration(T_foo)), T_asciiz,
                          <<IrString(T_Hi)>>),                     \* foo: .asciiz 'Hi'
       directive_combined(None, T_asciiz, <<IrString(T_Hi)>>),     \* .asciiz 'Hi'
       directive_combined(None, T_word, <<IntegerOperand(1)>>),    \* .word #1
       directive_combined(Some(LabelDeclaration(T_bar)), T_word,
                          <<IntegerOperand(1)>>),                  \* bar: .word #1
       directive_combined(Some(LabelDeclaration(T_bar)), T_asciiz,
                          <<IrString(T_test)>>) >>                 \* bar: .asciiz 'test'

\* Programs, as sequences of positions in RowAlphabet.
Programs == UNION { [1..n -> DOMAIN RowAlphabet] : n \in 0..MaxRows }
RowsOf(p) == [k \in DOMAIN p |-> RowAlphabet[p[k]]]

\* The immediates of the load rows of a program that is run.
LoadImms == {0, 3, 500, 65535}
LoadRow(l) == InstructionRow(None, Mnemonic.LOAD, <<Register(l[1]), IntegerOperand(l[2])>>)
\* `.data`, `.code`, load rows, `hlt`
LoadPrograms == UNION { [1..n -> (0..MaxReg) \X LoadImms] : n \in 0..MaxLoads }
LoadProgramRows(p) ==
    << RowAlphabet[1], RowAlphabet[2] >> \o [k \in DOMAIN p |-> LoadRow(p[k])]
        \o << RowAlphabet[4] >>
\* `.data`, `.code`, load rows: a program that does not end in `hlt`
LoadOnlyRows(p) ==
    << RowAlphabet[1], RowAlphabet[2] >> \o [k \in DOMAIN p |-> LoadRow(p[k])]

\* The program of test_assemble_program:
\* .data / .code / load $0 #100 / load $1 #1 / load $2 #0 / test: inc $0 /
\* neq $0 $2 / jmpe @test / hlt
TestProgramRows ==
    << RowAlphabet[1], RowAlphabet[2],
       InstructionRow(None, Mnemonic.LOAD, <<Register(0), IntegerOperand(100)>>),
       InstructionRow(None, Mnemonic.LOAD, <<Register(1), IntegerOperand(1)>>),
       InstructionRow(None, Mnemonic.LOAD, <<Register(2), IntegerOperand(0)>>),
       InstructionRow(Some(LabelDeclaration(T_test)), Mnemonic.INC, <<Register(0)>>),
       InstructionRow(None, Mnemonic.NEQ, <<Register(0), Register(2)>>),
       InstructionRow(None, T_jmpe, <<LabelUsage(T_test)>>),
       RowAlphabet[4] >>

\* Operand lists of an instruction row whose bytes fit its three slots.
OperandRegs == {0, 7, 31}
OperandLists ==
    UNION { [1..n -> OperandRegs] : n \in 0..3 }
RegisterOperands(l) == [k \in DOMAIN l |-> Register(l[k])]

\* Texts handed to the text-to-opcode map: every mnemonic in lower case, in
\* upper case and capitalised, and three words that are no mnemonic.
OtherTexts == << T_illegal, T_nop, T_jmpe >>
Capitalised(t) == [k \in DOMAIN t |-> IF k = 1 THEN UpperChar(t[k]) ELSE t[k]]

\* The register values a VM is stepped from: the values of the VM tests, the
\* ends of i32, a negative value and a byte count.
StepValues == {-1, 0, 3, 7, 1024, I32Max, I32Min}
ThreeRegisterOps == {"ADD", "SUB", "MUL", "DIV", "EQ", "NEQ", "GT", "LT", "GTQ", "LTQ"}
OneRegisterOps == {"JMP", "JMPF", "JMPB", "JEQ", "JNEQ", "ALOC", "INC", "DEC"}
\* One-register instructions as the emitter writes them: opcode and register.
PackedInstructions(ops) == { <<OpcodeAsU8(op), r>> : op \in ops, r \in {0, 1} }
\* Instructions of four bytes, as the VM tests write them.
PaddedInstructions ==
    { <<OpcodeAsU8(op)>> \o t :
        op \in ThreeRegisterOps, t \in {<<0, 1, 2>>, <<0, 1, 0>>, <<1, 0, 0>>, <<0, 0, 1>>} }
    \cup { <<OpcodeAsU8(op), r, 0, 0>> : op \in OneRegisterOps, r \in {0, 1} }
    \cup { <<0, 0, 0, 0>>, <<1, 2, 1, 244>>, <<20, 0, 0, 0>>, <<200, 0, 0, 0>> }
Instructions == PaddedInstructions \cup PackedInstructions(OneRegisterOps)
\* `load $r #n` as the emitter writes it.
EmittedLoadRegs == {0, 1, NumRegisters - 1}
EmittedLoadImms == {0, 1, 255, 256, 500, 32768, 65535}
EmittedLoad(r, n) == to_bytes(LoadRow(<<r, n>>)).bytes
EmittedLoads == { EmittedLoad(r, n) : r \in EmittedLoadRegs, n \in EmittedLoadImms }
\* The code of a stepped VM: one instruction, or a packed ALOC, INC or DEC
\* followed by one instruction.
StepPrograms ==
    Instructions
    \cup EmittedLoads
    \cup { first \o second :
             first \in PackedInstructions({"ALOC", "INC", "DEC"}), second \in Instructions }
\* prepend_header of the VM tests: the magic, then zeros up to 65 bytes.
prepend_header(b) ==
    PIE_HEADER_PREFIX \o [k \in 1..(PIE_HEADER_LENGTH + 1 - Len(PIE_HEADER_PREFIX)) |-> 0] \o b
\* The same bytes under four bytes that are not the magic.
WithoutMagic(program) == [k \in DOMAIN program |-> IF k = 1 THEN 0 ELSE program[k]]

\* No ALOC is about to grow the heap past MaxHeap.
AllocWithinBound(v) ==
    LET p == v.pc IN
    ~ /\ InProgram(v, p) /\ InProgram(v, p + 1)
      /\ OpcodeFromU8(ProgramAt(v, p)) = "ALOC"
      /\ ProgramAt(v, p + 1) < NumRegisters
      /\ v.registers[ProgramAt(v, p + 1)] > MaxHeap - Len(v.heap)

InitAsm ==
    /\ asm = AssemblerNew
    /\ src = <<>>
    /\ apc = "idle"
    /\ idx = 0
    /\ assembled_program = <<>>
    /\ body = <<>>
    /\ result = [tag |-> "none"]

InitVM ==
    /\ vm = VMNew
    /\ vpc = "new"

NoArg == [kind |-> "none"]

(***************************************************************************)
(* assemble, step by step.                                                 *)
(***************************************************************************)
asmLocals == <<src, apc, idx, assembled_program, body, result>>
vmVars == <<vm, vpc, build>>
fnVars == <<fn_arg, fn_ret>>

\* assemble up to the first pass: the program is parsed, the header written.
AssembleRows(rows) ==
    /\ apc = "idle"
    /\ src' = rows
    /\ assembled_program' = write_pie_header
    /\ apc' = "first"
    /\ idx' = 1
    /\ UNCHANGED <<asm, body, result, vmVars, fnVars>>

Assemble == apc = "idle" /\ \E p \in Programs : AssembleRows(RowsOf(p))

AssembleLoads ==
    apc = "idle" /\ \E p \in LoadPrograms : AssembleRows(LoadProgramRows(p))

AssembleLoadsOnly ==
    apc = "idle" /\ \E p \in LoadPrograms : AssembleRows(LoadOnlyRows(p))

AssembleTestProgram == AssembleRows(TestProgramRows)

\* process_first_phase: one row
FirstPhaseStep ==
    /\ apc = "first"
    /\ idx <= Len(src)
    /\ asm' = FirstPhaseRow(asm, src[idx])
    /\ idx' = idx + 1
    /\ UNCHANGED <<src, apc, assembled_program, body, result, vmVars, fnVars>>

\* A check that only asks for at least two sections.
SectionsInsufficient_fewer_than_two(sections) == Len(sections) < 2

\* assemble: `self.sections.len() != 2`
SectionsInsufficient(sections) == Len(sections) # 2

\* process_first_phase returns; assemble checks the errors and the sections
FirstPhaseEnd ==
    /\ apc = "first"
    /\ idx > Len(src)
    /\ LET a1 == [asm EXCEPT !.phase = "Second"] IN
       IF a1.errors # <<>>
       THEN /\ asm' = a1
            /\ result' = [tag |-> "Err", val |-> a1.errors]
            /\ apc' = "done"
            /\ UNCHANGED <<idx, body>>
       ELSE IF SectionsInsufficient(a1.sections)
       THEN /\ asm' = [a1 EXCEPT !.errors = Append(@, InsufficientSections)]
            /\ result' = [tag |-> "Err", val |-> asm'.errors]
            /\ apc' = "done"
            /\ UNCHANGED <<idx, body>>
       ELSE /\ asm' = [a1 EXCEPT !.current_instruction = 0]
            /\ apc' = "second"
            /\ idx' = 1
            /\ body' = <<>>
            /\ UNCHANGED result
    /\ UNCHANGED <<src, assembled_program, vmVars, fnVars>>

\* process_second_phase: one row
SecondPhaseStep ==
    /\ apc = "second"
    /\ idx <= Len(src)
    /\ LET i == src[idx]
           e == IF is_opcode(i) THEN to_bytes(i)
                ELSE [exit |-> FALSE, bytes |-> <<>>]
       IN  IF e.exit
           THEN /\ apc' = "exit"
                /\ UNCHANGED <<asm, idx, body>>
           ELSE /\ body' = body \o e.bytes
                /\ asm' = SecondPhaseRow(asm, i)
                /\ idx' = idx + 1
                /\ UNCHANGED apc
    /\ UNCHANGED <<src, assembled_program, result, vmVars, fnVars>>

\* process_second_phase returns; assemble appends the body to the header
SecondPhaseEnd ==
    /\ apc = "second"
    /\ idx > Len(src)
    /\ assembled_program' = assembled_program \o body
    /\ result' = [tag |-> "Ok", val |-> assembled_program']
    /\ apc' = "done"
    /\ UNCHANGED <<asm, src, idx, body, vmVars, fnVars>>

(***************************************************************************)
(* main: the assembled bytes are added to a fresh VM, which is run.        *)
(***************************************************************************)
VMAddBytes ==
    /\ vpc = "new"
    /\ result.tag = "Ok"
    /\ vm' = add_bytes(vm, result.val)
    /\ vpc' = "running"
    /\ UNCHANGED <<asm, asmLocals, build, fnVars>>

\* VM::run: one turn of its loop
VMRunStep ==
    /\ vpc = "running"
    /\ AllocWithinBound(vm)
    /\ LET r == execute_instruction(vm, build) IN
       /\ vm' = r.vm
       /\ vpc' = IF r.panic THEN "panic" ELSE IF r.done THEN "halted" ELSE "running"
    /\ UNCHANGED <<asm, asmLocals, build, fnVars>>

(***************************************************************************)
(* Pure functions applied on their own.                                    *)
(***************************************************************************)
ApplyOpcodeFromU8 ==
    /\ fn_arg.kind = "u8" /\ fn_ret = NoArg
    /\ fn_ret' = [val |-> OpcodeFromU8(fn_arg.val), kind |-> "Opcode"]
    /\ UNCHANGED <<asm, asmLocals, vmVars, fn_arg>>

ApplyOpcodeFromStr ==
    /\ fn_arg.kind = "text" /\ fn_ret = NoArg
    /\ fn_ret' = [val |-> OpcodeFromStr(fn_arg.val), kind |-> "Opcode"]
    /\ UNCHANGED <<asm, asmLocals, vmVars, fn_arg>>

ApplyExtractOperand ==
    /\ fn_arg.kind = "imm" /\ fn_ret = NoArg
    /\ fn_ret' = [val |-> extract_operand(IntegerOperand(fn_arg.val), <<>>).bytes,
                  kind |-> "Bytes"]
    /\ UNCHANGED <<asm, asmLocals, vmVars, fn_arg>>

ApplyToBytes ==
    /\ fn_arg.kind = "row" /\ fn_ret = NoArg
    /\ fn_ret' = [val |-> to_bytes(fn_arg.val).bytes, kind |-> "Bytes"]
    /\ UNCHANGED <<asm, asmLocals, vmVars, fn_arg>>

(***************************************************************************)
(* Specifications.                                                         *)
(***************************************************************************)
\* The assembler on every program of at most MaxRows rows.
Init ==
    /\ InitAsm /\ InitVM
    /\ build = "release"
    /\ fn_arg = NoArg /\ fn_ret = NoArg

Next ==
    \/ Assemble
    \/ FirstPhaseStep
    \/ FirstPhaseEnd
    \/ SecondPhaseStep
    \/ SecondPhaseEnd

Spec == Init /\ [][Next]_vars

\* Assemble and run: `.data`, `.code`, load rows, `hlt`.
InitRun ==
    /\ InitAsm /\ InitVM
    /\ build \in {"debug", "release"}
    /\ fn_arg = NoArg /\ fn_ret = NoArg

NextRun ==
    \/ AssembleLoads
    \/ AssembleLoadsOnly
    \/ AssembleTestProgram
    \/ FirstPhaseStep
    \/ FirstPhaseEnd
    \/ SecondPhaseStep
    \/ SecondPhaseEnd
    \/ VMAddBytes
    \/ VMRunStep

SpecRun == InitRun /\ [][NextRun]_vars

\* The catalog and the emitter, one function applied to one input.
InitFn ==
    /\ InitAsm /\ InitVM
    /\ build = "release"
    /\ fn_ret = NoArg
    /\ \/ \E b \in 0..255 : fn_arg = [val |-> b, kind |-> "u8"]
       \/ \E x \in Opcodes :
            \/ fn_arg = [val |-> Mnemonic[x], kind |-> "text"]
            \/ fn_arg = [val |-> ToUppercase(Mnemonic[x]), kind |-> "text"]
            \/ fn_arg = [val |-> Capitalised(Mnemonic[x]), kind |-> "text"]
       \/ \E k \in DOMAIN OtherTexts : fn_arg = [val |-> OtherTexts[k], kind |-> "text"]
       \/ \E v \in 0..MaxImm : fn_arg = [val |-> v, kind |-> "imm"]
       \/ \E x \in Opcodes, l \in OperandLists :
            fn_arg = [val |-> InstructionRow(None, Mnemonic[x], RegisterOperands(l)),
                      kind |-> "row"]
       \/ \E x \in Opcodes, r \in OperandRegs, v \in {0, 1, 500, 65535} :
            fn_arg = [val |-> InstructionRow(None, Mnemonic[x],
                                             <<Register(r), IntegerOperand(v)>>),
                      kind |-> "row"]

NextFn ==
    \/ ApplyOpcodeFromU8
    \/ ApplyOpcodeFromStr
    \/ ApplyExtractOperand
    \/ ApplyToBytes

SpecFn == InitFn /\ [][NextFn]_vars

\* A VM with a program and register values set as the VM tests set them, run.
InitStep ==
    /\ InitAsm
    /\ fn_arg = NoArg /\ fn_ret = NoArg
    /\ build \in {"debug", "release"}
    /\ vpc = "running"
    /\ \E x \in StepValues, y \in StepValues, flag \in BOOLEAN, code \in StepPrograms,
          magic \in BOOLEAN :
          LET program == prepend_header(code) IN
          vm = [VMNew EXCEPT
                  !.registers = [r \in 0..(NumRegisters - 1) |->
                                    IF r = 0 THEN x ELSE IF r = 1 THEN y ELSE 0],
                  !.program = IF magic THEN program ELSE WithoutMagic(program),
                  !.equal_flag = flag]

NextStep == VMRunStep

SpecStep == InitStep /\ [][NextStep]_vars

\* A symbol table used on its own, as test_symbol_table does: the table is
\* the one of a fresh Assembler; fn_arg holds the call and fn_ret what it
\* returned.
SymbolNames == {T_foo, T_bar, T_test}
SymbolOffsets == {0, 5}
SymbolsToAdd ==
    { SymbolNew(n, "Label") : n \in SymbolNames }
        \cup { new_with_offset(n, "Label", 12) : n \in SymbolNames }

SymAddSymbol ==
    /\ Len(asm.symbols) < MaxSymbols
    /\ \E s \in SymbolsToAdd :
          /\ asm' = [asm EXCEPT !.symbols = add_symbol(@, s)]
          /\ fn_arg' = [val |-> s, kind |-> "add_symbol"]
          /\ fn_ret' = NoArg
    /\ UNCHANGED <<asmLocals, vmVars>>

SymSetSymbolOffset ==
    /\ \E s \in SymbolNames, offset \in SymbolOffsets :
          /\ asm' = [asm EXCEPT !.symbols = set_symbol_offset(@, s, offset)]
          /\ fn_arg' = [val |-> <<s, offset>>, kind |-> "set_symbol_offset"]
          /\ fn_ret' = [val |-> has_symbol(asm.symbols, s), kind |-> "bool"]
    /\ UNCHANGED <<asmLocals, vmVars>>

SymHasSymbol ==
    /\ \E s \in SymbolNames :
          /\ fn_arg' = [val |-> s, kind |-> "has_symbol"]
          /\ fn_ret' = [val |-> has_symbol(asm.symbols, s), kind |-> "bool"]
    /\ UNCHANGED <<asm, asmLocals, vmVars>>

SymSymbolValue ==
    /\ \E s \in SymbolNames :
          /\ fn_arg' = [val |-> s, kind |-> "symbol_value"]
          /\ fn_ret' = [val |-> symbol_value(asm.symbols, s), kind |-> "Option"]
    /\ UNCHANGED <<asm, asmLocals, vmVars>>

InitSym ==
    /\ InitAsm /\ InitVM
    /\ build = "release"
    /\ fn_arg = NoArg /\ fn_ret = NoArg

NextSym ==
    \/ SymAddSymbol
    \/ SymSetSymbolOffset
    \/ SymHasSymbol
    \/ SymSymbolValue

SpecSym == InitSym /\ [][NextSym]_vars

\* A VM that is called once more after run or run_once has returned; fn_arg
\* records that call and the pc it was made at.
\* VM::run_once on a VM at rest: one instruction, whatever it returns.
VMRunOnce ==
    /\ vpc = "halted"
    /\ fn_arg = NoArg
    /\ AllocWithinBound(vm)
    /\ fn_arg' = [val |-> vm.pc, kind |-> "run_once"]
    /\ LET r == execute_instruction(vm, build) IN
       /\ vm' = r.vm
       /\ vpc' = IF r.panic THEN "panic" ELSE "halted"
    /\ UNCHANGED <<asm, asmLocals, build, fn_ret>>

\* VM::run on a VM at rest: its loop is entered again.
VMRunAgain ==
    /\ vpc = "halted"
    /\ fn_arg = NoArg
    /\ fn_arg' = [val |-> vm.pc, kind |-> "run"]
    /\ vpc' = "running"
    /\ UNCHANGED <<asm, asmLocals, vm, build, fn_ret>>

NextResume ==
    \/ VMRunStep
    \/ VMRunOnce
    \/ VMRunAgain

SpecResume == InitStep /\ [][NextResume]_vars

\* The REPL's `.spawn`, given the same file twice: assemble is called again
\* on the Assembler the first call left behind.  fn_arg keeps the bytes the
\* first call returned.
AssembleAgain ==
    /\ apc = "done" /\ result.tag = "Ok"
    /\ fn_arg = NoArg
    /\ fn_arg' = [val |-> result.val, kind |-> "Bytes"]
    /\ assembled_program' = write_pie_header
    /\ apc' = "first"
    /\ idx' = 1
    /\ result' = [tag |-> "none"]
    /\ UNCHANGED <<asm, src, body, vmVars, fn_ret>>

NextAgain ==
    \/ Assemble
    \/ FirstPhaseStep
    \/ FirstPhaseEnd
    \/ SecondPhaseStep
    \/ SecondPhaseEnd
    \/ AssembleAgain

SpecAgain == Init /\ [][NextAgain]_vars

(***************************************************************************)
(* Properties.                                                             *)
(***************************************************************************)
\* The rows of src that load register r, and the value the last one loads.
LoadRowsFor(r) ==
    { k \in DOMAIN src :
        /\ is_opcode(src[k]) /\ src[k].opcode.val.code = "LOAD"
        /\ IsSome(src[k].operand1) /\ src[k].operand1.val.tag = "Register"
        /\ src[k].operand1.val.reg_num = r }
LastLoadFor(r) ==
    LET last == CHOOSE k \in LoadRowsFor(r) : \A j \in LoadRowsFor(r) : j <= k
    IN  src[last].operand2.val.value

\* C1: a program `.data`, `.code`, load rows, `hlt` that is assembled, added
\* to a fresh VM and run ends in a halt (not a panic) with every loaded
\* register holding the value of its last load row.
C1_LoadsRunAsAssembled ==
    vpc \in {"halted", "panic"} =>
        /\ vpc = "halted"
        /\ \A r \in 0..(NumRegisters - 1) :
              LoadRowsFor(r) # {} => vm.registers[r] = LastLoadFor(r)

\* C2: every Ok result of assemble is the 64-byte header (the magic
\* 45 50 49 45, then 60 zero bytes) followed, from offset 64, by the body.
C2_HeaderPresence ==
    result.tag = "Ok" =>
        /\ Len(result.val) >= 64
        /\ SubSeq(result.val, 1, 4) = <<45, 50, 49, 45>>
        /\ \A k \in 5..64 : result.val[k] = 0
        /\ SubSeq(result.val, 65, Len(result.val)) = body

C2_Witness == result.tag = "Ok" /\ Len(body) > 0

\* The bytes an operand is to occupy: a register one byte, an integer the
\* high and the low byte of its low 16 bits.
OperandBytes(o) ==
    IF ~IsSome(o) THEN <<>>
    ELSE IF o.val.tag = "Register" THEN <<o.val.reg_num>>
    ELSE << (o.val.value % 65536) \div 256, o.val.value % 256 >>

\* C3: to_bytes of an instruction row returns exactly four bytes: the opcode
\* byte, the operand bytes in order, and zeros in the unused slots.
C3_FixedWidthEmit ==
    (fn_arg.kind = "row" /\ fn_ret.kind = "Bytes") =>
        LET i == fn_arg.val
            want == << OpcodeAsU8(i.opcode.val.code) >> \o OperandBytes(i.operand1)
                        \o OperandBytes(i.operand2) \o OperandBytes(i.operand3)
                        \o <<0, 0, 0>>
        IN  /\ Len(fn_ret.val) = 4
            /\ fn_ret.val = SubSeq(want, 1, 4)

\* C4: an integer operand v is emitted as two bytes, high byte first, of
\* v mod 65536 (hi * 256 + lo = v mod 65536), and `load $0 #500` is emitted
\* as 1 0 1 244.
C4_BigEndianImmediate ==
    /\ (fn_arg.kind = "imm" /\ fn_ret.kind = "Bytes") =>
          /\ Len(fn_ret.val) = 2
          /\ fn_ret.val[1] \in 0..255 /\ fn_ret.val[2] \in 0..255
          /\ fn_ret.val[1] * 256 + fn_ret.val[2] = fn_arg.val % 65536
    /\ ( /\ fn_arg.kind = "row" /\ fn_ret.kind = "Bytes"
         /\ fn_arg.val = InstructionRow(None, Mnemonic.LOAD,
                                        <<Register(0), IntegerOperand(500)>>) ) =>
          fn_ret.val = <<1, 0, 1, 244>>

C4_Witness ==
    /\ fn_arg.kind = "imm" /\ fn_arg.val = 500
    /\ fn_ret.kind = "Bytes" /\ fn_ret.val = <<1, 244>>

\* The opcode byte the emitter writes for opcode x.
EmittedOpcodeByte(x) ==
    to_bytes([ label |-> None, opcode |-> Some(Op(x)), directive |-> None,
               operand1 |-> None, operand2 |-> None, operand3 |-> None ]).bytes[1]

\* C5: the byte-to-opcode map is total over 0..255: the byte the emitter
\* writes for each opcode other than IGL is its position 0..20 and decodes
\* to that opcode, and every byte outside 0..20 decodes to IGL.
C5_ByteDecodeTotal ==
    (fn_arg.kind = "u8" /\ fn_ret.kind = "Opcode") =>
        /\ fn_ret.val \in Opcodes
        /\ fn_arg.val \notin 0..20 => fn_ret.val = "IGL"
        /\ \A k \in 1..21 :
              /\ EmittedOpcodeByte(Opcode[k]) = k - 1
              /\ fn_arg.val = k - 1 => fn_ret.val = Opcode[k]

C5_Witness ==
    /\ fn_arg.kind = "u8" /\ fn_arg.val = 20
    /\ fn_ret.kind = "Opcode" /\ fn_ret.val = "PRTS"

\* C6: the text-to-opcode map returns x for the lower-case and for the
\* upper-case mnemonic of each of the 21 opcodes x other than IGL, and IGL
\* for a text that is no mnemonic.
C6_TextToOpcode ==
    (fn_arg.kind = "text" /\ fn_ret.kind = "Opcode") =>
        /\ \A x \in Opcodes \ {"IGL"} :
              (fn_arg.val = Mnemonic[x] \/ fn_arg.val = ToUppercase(Mnemonic[x]))
                  => fn_ret.val = x
        /\ (\A x \in Opcodes \ {"IGL"} : ToLowercase(fn_arg.val) # Mnemonic[x])
              => fn_ret.val = "IGL"

\* Row i is the section header `.name`.
IsHeaderRow(i, name) ==
    /\ is_directive(i) /\ ~has_operands(i)
    /\ i.directive.val.name = name
\* Row i is a recognised section header.
IsSectionHeader(i) == IsHeaderRow(i, T_data) \/ IsHeaderRow(i, T_code)

\* C7: assemble returns Ok only for a program with at least one `.data`
\* header and at least one `.code` header.
C7_DataAndCodeRequired ==
    result.tag = "Ok" =>
        /\ \E k \in DOMAIN src : IsHeaderRow(src[k], T_data)
        /\ \E k \in DOMAIN src : IsHeaderRow(src[k], T_code)

\* The rows the first pass has gone through.
Processed == IF apc = "first" THEN 1..(idx - 1)
             ELSE IF apc = "idle" THEN {} ELSE DOMAIN src
\* Row k comes after a recognised section header.
InSection(k) == \E j \in 1..(k - 1) : IsSectionHeader(src[j])
ErrorsOfKind(kind) == SelectSeq(asm.errors, LAMBDA e : e.kind = kind)

\* Row i is a directive with operands that is not `.asciiz`.
IsUnknownDirective(i) ==
    is_directive(i) /\ has_operands(i) /\ i.directive.val.name # T_asciiz

C9_DuplicateLabelRejected ==
    LET declared == { k \in Processed : is_label(src[k]) /\ InSection(k) }
        again == { k \in declared :
                     \E j \in declared : j < k /\ src[j].label = src[k].label }
    IN  /\ Len(ErrorsOfKind("SymbolAlreadyDeclared")) = Cardinality(again)
        /\ Len(asm.symbols) = Cardinality(declared \ again)
        /\ \A m, n \in DOMAIN asm.symbols :
              asm.symbols[m].name = asm.symbols[n].name => m = n
        /\ (apc = "done" /\ again # {}) => result.tag = "Err"

C9_Witness ==
    /\ apc = "done" /\ result.tag = "Err"
    /\ Len(ErrorsOfKind("SymbolAlreadyDeclared")) = 1
    /\ Len(asm.symbols) = 1

\* The errors the claim expects of one row of the first pass.
RowErrors(a, i) ==
    (IF is_label(i) /\ ~IsSome(a.current_section)
     THEN << [kind |-> "NoSegmentDeclarationFound",
              instruction |-> a.current_instruction] >>
     ELSE IF is_label(i) /\ (\E k \in DOMAIN a.symbols :
                                a.symbols[k].name = i.label.val.name)
     THEN << [kind |-> "SymbolAlreadyDeclared"] >>
     ELSE <<>>)
    \o
    (IF is_directive(i) /\ has_operands(i) /\ i.directive.val.name # T_asciiz
     THEN << [directive |-> i.directive.val.name, kind |-> "UnknownDirectiveFound"] >>
     ELSE <<>>)

\* C10: every row of the first pass is checked, whatever errors earlier
\* rows gave, and its errors are appended in row order; assemble returns
\* only when the pass is over, and then, if errors were recorded, returns
\* Err with exactly these errors without running the second pass.
C10_ErrorsCollected ==
    [][ /\ (apc = "first" /\ idx <= Len(src)) =>
              /\ asm'.errors = asm.errors \o RowErrors(asm, src[idx])
              /\ apc' = "first" /\ idx' = idx + 1
              /\ result'.tag = "none"
        /\ (apc = "first" /\ idx > Len(src) /\ asm.errors # <<>>) =>
              /\ result' = [tag |-> "Err", val |-> asm.errors]
              /\ apc' = "done"
              /\ body' = <<>>
              /\ asm'.errors = asm.errors
      ]_vars

C10_Witness ==
    /\ apc = "done" /\ result.tag = "Err"
    /\ Len(result.val) = 2
    /\ result.val[1].kind = "NoSegmentDeclarationFound"
    /\ result.val[2].kind = "UnknownDirectiveFound"
    /\ body = <<>>

(***************************************************************************)
(* One step of the VM.                                                     *)
(***************************************************************************)
\* The step about to be taken decodes opcode op at pc.
Executes(op) ==
    /\ vpc = "running"
    /\ InProgram(vm, vm.pc)
    /\ ProgramAt(vm, vm.pc) = OpcodeAsU8(op)
\* Byte k of the instruction at pc, which has four bytes in the program.
InstructionByte(k) == ProgramAt(vm, vm.pc + k)
FourBytes == InProgram(vm, vm.pc + 3)
\* The instruction at pc is [op, r, 0, 0].
ExecutesPadded(op) ==
    Executes(op) /\ FourBytes /\ InstructionByte(2) = 0 /\ InstructionByte(3) = 0
\* The exact result of x + y, x - y or x * y is an i32 (for the product,
\* I32Min itself only as 1 * I32Min).
ResultFits(op, x, y) ==
    CASE op = "ADD" -> (y >= 0 /\ x <= I32Max - y) \/ (y < 0 /\ x >= I32Min - y)
      [] op = "SUB" -> (y >= 0 /\ x >= I32Min + y) \/ (y < 0 /\ x <= I32Max + y)
      [] op = "MUL" ->
            \/ x = 0 \/ y = 0 \/ x = 1 \/ y = 1
            \/ x # I32Min /\ y # I32Min
               /\ (IF x < 0 THEN -x ELSE x) <= I32Max \div (IF y < 0 THEN -y ELSE y)
      [] OTHER -> y # 0 /\ ~(x = I32Min /\ y = -1)
\* q is x / y rounded towards zero: what is left of x has the sign of x and
\* is smaller than y in magnitude.
IsTruncatedQuotient(q, x, y) ==
    LET r == x - q * y IN
    /\ r = 0 \/ (r < 0) = (x < 0)
    /\ IF y > 0 THEN -y < r /\ r < y
       ELSE y < r /\ (r <= 0 \/ r + y < 0)
\* Register d holds the result of op on x and y.
HoldsResult(op, value, x, y) ==
    CASE op = "ADD" -> value = x + y
      [] op = "SUB" -> value = x - y
      [] op = "MUL" -> value = x * y
      [] OTHER -> IsTruncatedQuotient(value, x, y)
\* The step changed at most register d, and neither the heap nor the flag.
OnlyRegisterChanged(d) ==
    /\ vpc' # "panic"
    /\ \A r \in DOMAIN vm.registers : r # d => vm'.registers[r] = vm.registers[r]
    /\ vm'.heap = vm.heap
    /\ vm'.equal_flag = vm.equal_flag

\* C11: a step on [ADD|SUB|MUL|DIV, a, b, d] with register indices below 32,
\* a non-zero divisor and a result within i32 leaves in register d the sum,
\* difference, product or truncated quotient of the values registers a and b
\* held before the step; a step on [INC, r, 0, 0] or [DEC, r, 0, 0] adds or
\* subtracts one; every other register, the heap and the flag are unchanged.
C11_ArithmeticStep ==
    [][ /\ \A op \in {"ADD", "SUB", "MUL", "DIV"} :
             ( /\ Executes(op) /\ FourBytes
               /\ \A k \in 1..3 : InstructionByte(k) < NumRegisters
               /\ ResultFits(op, vm.registers[InstructionByte(1)],
                             vm.registers[InstructionByte(2)]) )
             => /\ HoldsResult(op, vm'.registers[InstructionByte(3)],
                               vm.registers[InstructionByte(1)],
                               vm.registers[InstructionByte(2)])
                /\ OnlyRegisterChanged(InstructionByte(3))
        /\ ( /\ ExecutesPadded("INC")
             /\ InstructionByte(1) < NumRegisters
             /\ vm.registers[InstructionByte(1)] < I32Max )
           => /\ vm'.registers[InstructionByte(1)] = vm.registers[InstructionByte(1)] + 1
              /\ OnlyRegisterChanged(InstructionByte(1))
        /\ ( /\ ExecutesPadded("DEC")
             /\ InstructionByte(1) < NumRegisters
             /\ vm.registers[InstructionByte(1)] > I32Min )
           => /\ vm'.registers[InstructionByte(1)] = vm.registers[InstructionByte(1)] - 1
              /\ OnlyRegisterChanged(InstructionByte(1))
      ]_vars

\* The code of the program, which starts at INITIAL_PC, begins with bytes.
CodeStartsWith(bytes) ==
    /\ Len(vm.program) >= INITIAL_PC + Len(bytes)
    /\ SubSeq(vm.program, INITIAL_PC + 1, INITIAL_PC + Len(bytes)) = bytes

\* [SUB, 0, 1, 0] has run on 7 and 3: register 0, an operand, holds 4.
C11_Witness ==
    /\ CodeStartsWith(<<OpcodeAsU8("SUB"), 0, 1, 0>>)
    /\ vm.pc = INITIAL_PC + 4
    /\ vm.registers[0] = 4 /\ vm.registers[1] = 3

\* C12: a step on [DIV, a, b, d] with a dividend >= 0 and a divisor > 0
\* leaves remainder = dividend mod divisor, with
\* quotient * divisor + remainder = dividend and 0 <= remainder < divisor;
\* a step that executes another opcode, or none, leaves remainder alone.
C12_DivisionRemainder ==
    [][ /\ ( /\ Executes("DIV") /\ FourBytes
             /\ \A k \in 1..3 : InstructionByte(k) < NumRegisters
             /\ vm.registers[InstructionByte(1)] >= 0
             /\ vm.registers[InstructionByte(2)] > 0 )
           => LET dividend == vm.registers[InstructionByte(1)]
                  divisor == vm.registers[InstructionByte(2)]
                  quotient == vm'.registers[InstructionByte(3)]
              IN  /\ vpc' # "panic"
                  /\ vm'.remainder = dividend % divisor
                  /\ quotient * divisor + vm'.remainder = dividend
                  /\ 0 <= vm'.remainder /\ vm'.remainder < divisor
        /\ ~Executes("DIV") => vm'.remainder = vm.remainder
      ]_vars

\* [DIV, 0, 1, 2] has run on 7 and 3: quotient 2, remainder 1.
C12_Witness ==
    /\ CodeStartsWith(<<OpcodeAsU8("DIV"), 0, 1, 2>>)
    /\ vm.pc = INITIAL_PC + 4
    /\ vm.registers[0] = 7 /\ vm.registers[1] = 3
    /\ vm.registers[2] = 2 /\ vm.remainder = 1

\* The signed comparison opcode op names.
Compares(op, x, y) ==
    CASE op = "EQ" -> x = y
      [] op = "NEQ" -> x # y
      [] op = "GT" -> x > y
      [] op = "LT" -> x < y
      [] op = "GTQ" -> x >= y
      [] OTHER -> x <= y

\* C13: a step on [EQ|NEQ|GT|LT|GTQ|LTQ, a, b, 0] sets equal_flag to the
\* signed comparison of registers a and b, whatever the flag was, changes no
\* register and not the heap, and leaves pc at the opcode address + 4.
C13_ComparisonStep ==
    [][ \A op \in {"EQ", "NEQ", "GT", "LT", "GTQ", "LTQ"} :
          ( /\ Executes(op) /\ FourBytes
            /\ InstructionByte(1) < NumRegisters
            /\ InstructionByte(2) < NumRegisters
            /\ InstructionByte(3) = 0 )
          => /\ vpc' = "running"
             /\ vm'.equal_flag = Compares(op, vm.registers[InstructionByte(1)],
                                          vm.registers[InstructionByte(2)])
             /\ vm'.registers = vm.registers
             /\ vm'.heap = vm.heap
             /\ vm'.pc = vm.pc + 4
      ]_vars

\* [GTQ, 0, 1, 0] has run on two equal values and set the flag.
C13_Witness ==
    /\ CodeStartsWith(<<OpcodeAsU8("GTQ"), 0, 1, 0>>)
    /\ vm.pc = INITIAL_PC + 4
    /\ vm.registers[0] = vm.registers[1]
    /\ vm.equal_flag

\* C14: a step on [JMP, r, 0, 0] sets pc to register r; a step on
\* [JEQ, r, 0, 0] does so when equal_flag is true and a step on
\* [JNEQ, r, 0, 0] when it is false, and otherwise pc only moves on inside
\* the instruction; none of the three changes a register, the heap or the flag.
C14_AbsoluteJumps ==
    [][ \A op \in {"JMP", "JEQ", "JNEQ"} :
          (ExecutesPadded(op) /\ InstructionByte(1) < NumRegisters)
          => LET target == vm.registers[InstructionByte(1)]
                 taken == CASE op = "JMP" -> TRUE
                            [] op = "JEQ" -> vm.equal_flag
                            [] OTHER -> ~vm.equal_flag
             IN  /\ vpc' = "running"
                 /\ taken => vm'.pc = target
                 /\ ~taken => vm'.pc \in (vm.pc + 1)..(vm.pc + 4)
                 /\ vm'.registers = vm.registers
                 /\ vm'.heap = vm.heap
                 /\ vm'.equal_flag = vm.equal_flag
      ]_vars

\* [JNEQ, 0, 0, 0] has run with the flag false and jumped to 7.
C14_Witness ==
    /\ CodeStartsWith(<<OpcodeAsU8("JNEQ"), 0, 0, 0>>)
    /\ vpc = "running"
    /\ ~vm.equal_flag
    /\ vm.registers[0] = 7 /\ vm.pc = 7

\* C15: a step on [ALOC, r, 0, 0] with a byte count n >= 0 in register r
\* makes the heap n bytes longer: the bytes it held are unchanged and the
\* added bytes are zero.
C15_AlocGrowth ==
    [][ ( /\ ExecutesPadded("ALOC")
          /\ InstructionByte(1) < NumRegisters
          /\ vm.registers[InstructionByte(1)] >= 0 )
        => LET n == vm.registers[InstructionByte(1)]
               old == Len(vm.heap)
           IN  /\ vpc' = "running"
               /\ Len(vm'.heap) = old + n
               /\ \A k \in 1..old : vm'.heap[k] = vm.heap[k]
               /\ \A k \in (old + 1)..(old + n) : vm'.heap[k] = 0
      ]_vars

\* [ALOC, 0, 0, 0] has run on an empty heap with 1024 in register 0.
C15_Witness ==
    /\ CodeStartsWith(<<OpcodeAsU8("ALOC"), 0, 0, 0>>)
    /\ vm.pc = INITIAL_PC + 2
    /\ vm.registers[0] = 1024
    /\ Len(vm.heap) = 1024

\* C16: no step of the VM makes the heap shorter, whatever the program and
\* whatever value, a negative one included, the register of an ALOC holds.
C16_HeapNeverShrinks ==
    [][Len(vm'.heap) >= Len(vm.heap)]_vars

(***************************************************************************)
(* The assembled image and its run.                                        *)
(***************************************************************************)
\* The rows of src that are the header `.name`, and its opcode rows.
HeaderRows(name) == { k \in DOMAIN src : IsHeaderRow(src[k], name) }
OpcodeRows == { k \in DOMAIN src : is_opcode(src[k]) }
StringConstantRows ==
    { k \in DOMAIN src : is_directive(src[k]) /\ has_operands(src[k]) }

\* C17: the image assemble returns for a source with one `.data` header,
\* one `.code` header, no string constants and k opcode rows has 64 + 4 * k
\* bytes, and the program of the VM it was added to is that image.
C17_FourBytesPerOpcodeRow ==
    /\ ( /\ result.tag = "Ok"
         /\ Cardinality(HeaderRows(T_data)) = 1
         /\ Cardinality(HeaderRows(T_code)) = 1
         /\ StringConstantRows = {} )
       => Len(result.val) = PIE_HEADER_LENGTH + 4 * Cardinality(OpcodeRows)
    /\ vpc # "new" => vm.program = result.val

\* C18: assembling and running the test program ends by halting on its final
\* HLT, after the three loads and the loop body have executed: the process
\* does not exit inside the assembler, the VM does not panic, and when the
\* run stops the last byte executed is the image's final byte, a HLT, with
\* $1 = 1, $2 = 0 and $0 incremented past 100.
C18_TestProgramHalts ==
    src = TestProgramRows =>
        /\ apc # "exit"
        /\ vpc # "panic"
        /\ vpc = "halted" =>
              /\ vm.pc = Len(vm.program)
              /\ OpcodeFromU8(ProgramAt(vm, vm.pc - 1)) = "HLT"
              /\ vm.registers[0] > 100
              /\ vm.registers[1] = 1
              /\ vm.registers[2] = 0

\* C19: run refuses a program whose first four bytes are not the magic: a
\* step of the VM on such a program executes no instruction, leaving pc,
\* registers, heap and equal_flag as they were.
C19_RunVerifiesHeader ==
    [][ verify_header(vm) # Some(TRUE) =>
            /\ vm'.pc = vm.pc
            /\ vm'.registers = vm.registers
            /\ vm'.heap = vm.heap
            /\ vm'.equal_flag = vm.equal_flag ]_vars

\* C20: the image a successful assemble returns is the 64-byte header, then
\* the read-only buffer (every string constant followed by a zero byte, in
\* declaration order), then the code: the buffer lies at offsets 64 to
\* 64 + len(ro) - 1 and the first instruction at offset 64 + len(ro).
C20_ReadOnlyDataPlaced ==
    result.tag = "Ok" =>
        LET header == SubSeq(result.val, 1, PIE_HEADER_LENGTH)
        IN  result.val = header \o asm.ro \o body

(***************************************************************************)
(* The symbol table.                                                       *)
(***************************************************************************)
\* The positions of the symbols called s, and the first of them.
Matches(symbols, s) == { k \in DOMAIN symbols : symbols[k].name = s }
FirstMatch(symbols, s) ==
    CHOOSE k \in Matches(symbols, s) : \A j \in Matches(symbols, s) : k <= j

\* C21: the symbol table is a list searched for the first match.  add_symbol
\* appends its symbol, whatever the table holds; has_symbol says whether a
\* symbol has the name; symbol_value returns the offset of the first symbol
\* of that name, and None when there is none or its offset is unset;
\* set_symbol_offset sets the offset of the first symbol of that name and
\* nothing else and returns true, or returns false with the table unchanged
\* when no symbol has the name.
C21_FirstMatchList ==
    [][ LET before == asm.symbols
            after == asm'.symbols
            call == fn_arg'.kind
            arg == fn_arg'.val
        IN  /\ call = "add_symbol" =>
                 /\ Len(after) = Len(before) + 1
                 /\ SubSeq(after, 1, Len(before)) = before
                 /\ after[Len(after)] = arg
            /\ call = "has_symbol" =>
                 /\ after = before
                 /\ fn_ret'.val = (Matches(before, arg) # {})
            /\ call = "symbol_value" =>
                 /\ after = before
                 /\ fn_ret'.val =
                       IF Matches(before, arg) = {} THEN None
                       ELSE before[FirstMatch(before, arg)].offset
            /\ call = "set_symbol_offset" =>
                 IF Matches(before, arg[1]) = {}
                 THEN fn_ret'.val = FALSE /\ after = before
                 ELSE /\ fn_ret'.val = TRUE
                      /\ Len(after) = Len(before)
                      /\ \A k \in DOMAIN before :
                            IF k = FirstMatch(before, arg[1])
                            THEN /\ after[k].offset = Some(arg[2])
                                 /\ after[k].name = before[k].name
                                 /\ after[k].symbol_type = before[k].symbol_type
                            ELSE after[k] = before[k] ]_vars

\* set_symbol_offset has just returned true on a table that holds the name
\* twice: the first of the two has the new offset, the second its old one,
\* and a duplicate was added without complaint.
C21_Witness ==
    /\ fn_arg.kind = "set_symbol_offset" /\ fn_ret.val = TRUE
    /\ Cardinality(Matches(asm.symbols, fn_arg.val[1])) >= 2
    /\ asm.symbols[FirstMatch(asm.symbols, fn_arg.val[1])].offset = Some(fn_arg.val[2])
    /\ \E k \in Matches(asm.symbols, fn_arg.val[1]) :
          asm.symbols[k].offset # Some(fn_arg.val[2])

\* The opcode the next step decodes (the program has a byte at pc).
DecodedOpcode == OpcodeFromU8(ProgramAt(vm, vm.pc))

\* C22: a step of the VM halts exactly when pc >= len(program), in which
\* case nothing changes, or the opcode at pc is HLT, or the byte at pc is no
\* recognised opcode (IGL); run goes on after every other step; a halting
\* step changes no register, not the heap and not equal_flag.
C22_HaltsInThreeCases ==
    [][ vpc = "running" =>
          /\ vpc' = "halted" <=>
                \/ UsizeGE(vm.pc, Len(vm.program))
                \/ DecodedOpcode \in {"HLT", "IGL"}
          /\ UsizeGE(vm.pc, Len(vm.program)) => vm' = vm
          /\ vpc' = "halted" =>
                /\ vm'.registers = vm.registers
                /\ vm'.heap = vm.heap
                /\ vm'.equal_flag = vm.equal_flag ]_vars

\* The four bytes at pc, when the program has them.
InstructionAtPc == SubSeq(vm.program, vm.pc + 1, vm.pc + 4)

\* C23: LOAD immediates survive emission and decoding.  A step on the four
\* bytes the emitter writes for `load $r #n`, with r below 32 and n in
\* 0..65535, leaves n in register r, every other register as it was, and pc
\* four bytes past the opcode.
C23_LoadRoundTrip ==
    [][ \A r \in EmittedLoadRegs, n \in EmittedLoadImms :
          ( /\ Executes("LOAD") /\ FourBytes
            /\ InstructionAtPc = EmittedLoad(r, n) )
          => /\ vpc' = "running"
             /\ vm'.registers[r] = n
             /\ \A o \in DOMAIN vm.registers : o # r => vm'.registers[o] = vm.registers[o]
             /\ vm'.pc = vm.pc + 4 ]_vars

\* `load $31 #500` as emitted has run: register 31 holds 500.
C23_Witness ==
    /\ CodeStartsWith(EmittedLoad(NumRegisters - 1, 500))
    /\ vpc = "running"
    /\ vm.pc = INITIAL_PC + 4
    /\ vm.registers[NumRegisters - 1] = 500

\* The opcodes whose step neither halts nor jumps; JEQ and JNEQ belong to
\* them when the flag keeps them from jumping.
StraightOps ==
    {"LOAD", "ADD", "SUB", "MUL", "DIV", "EQ", "NEQ", "GT", "LT", "GTQ", "LTQ",
     "ALOC", "INC", "DEC"}
FallsThrough(op) ==
    \/ op \in StraightOps
    \/ op = "JEQ" /\ ~vm.equal_flag
    \/ op = "JNEQ" /\ vm.equal_flag

\* C24: instructions are four bytes wide.  A step on an opcode that neither
\* halts nor jumps, with its four bytes in the program and no panic, consumes
\* the opcode byte and the three bytes after it: pc afterwards is the
\* opcode's address + 4.
C24_FixedWidth ==
    [][ \A op \in StraightOps \cup {"JEQ", "JNEQ"} :
          (Executes(op) /\ FourBytes /\ FallsThrough(op) /\ vpc' # "panic")
          => vm'.pc = vm.pc + 4 ]_vars

\* The register byte of the instruction at pc and the value of that register.
JumpRegister == InstructionByte(1)
JumpValue == vm.registers[JumpRegister]
\* The target of a relative jump is a pc of at most 31 bits.
TargetRepresentable(op) ==
    IF op = "JMPF" THEN JumpValue <= I32Max - (vm.pc + 2)
    ELSE JumpValue >= (vm.pc + 2) - I32Max
RelativeTarget(op) ==
    IF op = "JMPF" THEN vm.pc + 2 + JumpValue ELSE vm.pc + 2 - JumpValue
\* The step has jumped to the relative target and changed nothing else.
JumpsRelative(op) ==
    /\ vpc' = "running"
    /\ vm'.pc = RelativeTarget(op)
    /\ vm'.registers = vm.registers
    /\ vm'.heap = vm.heap
    /\ vm'.equal_flag = vm.equal_flag

\* C25 as stated: a step on [JMPF, r, 0, 0] at address p sets pc to
\* p + 2 + reg[r], a step on [JMPB, r, 0, 0] sets it to p + 2 - reg[r],
\* whatever the register holds; registers, heap and flag are unchanged.
C25_RelativeJumps_AnyValue ==
    [][ \A op \in {"JMPF", "JMPB"} :
          (ExecutesPadded(op) /\ JumpRegister < NumRegisters /\ TargetRepresentable(op))
          => JumpsRelative(op) ]_vars

\* C25: a step on [JMPF, r, 0, 0] at address p with reg[r] >= 0 sets pc to
\* p + 2 + reg[r]; a step on [JMPB, r, 0, 0] with 0 <= reg[r] <= p + 2 sets
\* it to p + 2 - reg[r]; registers, heap and flag are unchanged.
C25_RelativeJumps ==
    [][ \A op \in {"JMPF", "JMPB"} :
          ( /\ ExecutesPadded(op) /\ JumpRegister < NumRegisters
            /\ TargetRepresentable(op)
            /\ JumpValue >= 0
            /\ op = "JMPB" => JumpValue <= vm.pc + 2 )
          => JumpsRelative(op) ]_vars

\* [JMPF, 0, 0, 0] at 65 has run with 3 in register 0: pc is 65 + 2 + 3.
C25_Witness ==
    /\ CodeStartsWith(<<OpcodeAsU8("JMPF"), 0, 0, 0>>)
    /\ vpc = "running"
    /\ vm.registers[0] = 3
    /\ vm.pc = INITIAL_PC + 2 + 3

(***************************************************************************)
(* String constants and section headers.                                   *)
(***************************************************************************)
\* The row a pass is about to process.
CurrentRow == src[idx]
InFirstPass == apc = "first" /\ idx <= Len(src)
InSecondPass == apc = "second" /\ idx <= Len(src)
\* The row is `.asciiz 'text'`, with or without a label.
IsAsciizRow(i) ==
    /\ is_directive(i) /\ i.directive.val.name = T_asciiz
    /\ IsSome(i.operand1) /\ i.operand1.val.tag = "IrString"
IsLabelledAsciizRow(i) == IsAsciizRow(i) /\ is_label(i)
StringOf(i) == i.operand1.val.name

\* C26: in the first pass a row `name: .asciiz 'text'` inside a section
\* gives symbol `name` the offset ro_offset had before the row, appends the
\* bytes of text and one zero byte to the read-only buffer and advances
\* ro_offset by len(text) + 1, ro_offset being the length of the buffer, so
\* that successive constants start at 0, len(s1) + 1, ...; in the second
\* pass the row changes neither the symbols, the buffer nor ro_offset.
C26_StringConstantOffsets ==
    [][ /\ asm.ro_offset = Len(asm.ro)
        /\ ( InFirstPass /\ IsLabelledAsciizRow(CurrentRow)
             /\ IsSome(asm.current_section) )
           => /\ symbol_value(asm'.symbols, CurrentRow.label.val.name)
                    = Some(asm.ro_offset)
              /\ asm'.ro = asm.ro \o StringOf(CurrentRow) \o <<0>>
              /\ asm'.ro_offset = asm.ro_offset + Len(StringOf(CurrentRow)) + 1
        /\ (InSecondPass /\ IsLabelledAsciizRow(CurrentRow))
           => /\ asm'.symbols = asm.symbols
              /\ asm'.ro = asm.ro
              /\ asm'.ro_offset = asm.ro_offset
              /\ body' = body ]_vars

\* `.data`, `foo: .asciiz 'Hi'`, `bar: .asciiz 'test'` have gone through the
\* first pass: foo is at 0, bar at 3, and the buffer holds both strings.
C26_Witness ==
    /\ apc = "first" /\ idx = 4
    /\ symbol_value(asm.symbols, T_foo) = Some(0)
    /\ symbol_value(asm.symbols, T_bar) = Some(Len(T_Hi) + 1)
    /\ asm.ro = T_Hi \o <<0>> \o T_test \o <<0>>
    /\ asm.ro_offset = Len(T_Hi) + Len(T_test) + 2

\* The `.asciiz 'text'` rows without a label.
UnlabelledAsciizRows ==
    { k \in DOMAIN src : IsAsciizRow(src[k]) /\ ~is_label(src[k]) }

\* C27: once the first pass has gone through an `.asciiz 'text'` row that
\* has no label, the errors hold StringConstantDeclaredWithoutLabel with the
\* index of that row, and assemble does not return Ok for a program with
\* such a row.
C27_UnlabelledStringRejected ==
    /\ \A k \in UnlabelledAsciizRows \cap Processed :
          \E e \in DOMAIN asm.errors :
             asm.errors[e] = StringConstantDeclaredWithoutLabel(k - 1)
    /\ result.tag = "Ok" => UnlabelledAsciizRows = {}

\* The recognised section headers of the program.
SectionHeaderRows == { k \in DOMAIN src : IsSectionHeader(src[k]) }

InCodeSection(k) ==
    \E j \in 1..(k - 1) :
       /\ IsHeaderRow(src[j], T_code)
       /\ \A m \in (j + 1)..(k - 1) : ~IsSectionHeader(src[m])
\* The labelled instruction rows of the code section.
CodeLabelRows ==
    { k \in DOMAIN src : is_label(src[k]) /\ is_opcode(src[k]) /\ InCodeSection(k) }
FirstPassOver == apc \in {"second", "done"} \/ (apc = "first" /\ idx > Len(src))

\* C29: after the first pass every label declared on an instruction row of
\* the code section has an offset in the symbol table: the byte position of
\* its row in the code body, four times the number of opcode rows before it.
C29_CodeLabelOffsets ==
    FirstPassOver =>
        \A k \in CodeLabelRows :
           symbol_value(asm.symbols, src[k].label.val.name)
              = Some(4 * Cardinality({ j \in 1..(k - 1) : is_opcode(src[j]) }))

\* C30: PRTS is executed like any other instruction: a step on
\* [PRTS, r, 0, 0] does not halt the VM, changes no register and leaves pc
\* at the next instruction, four bytes on.
C30_PrtsExecutes ==
    [][ ExecutesPadded("PRTS") =>
          /\ vpc' = "running"
          /\ vm'.registers = vm.registers
          /\ vm'.pc = vm.pc + 4 ]_vars

(***************************************************************************)
(* What a row leaves alone.                                                *)
(***************************************************************************)
\* The row is a directive without operands named neither data nor code.
IsUnknownHeader(i) ==
    is_directive(i) /\ ~has_operands(i) /\ ~IsSectionHeader(i)

\* C31: a pass over a directive row without operands whose name is neither
\* `data` nor `code` leaves the sections list and current_section as they
\* were and, the row having no label, adds nothing to the error list.
C31_UnknownHeaderSkipped ==
    [][ ((InFirstPass \/ InSecondPass) /\ IsUnknownHeader(CurrentRow)) =>
          /\ asm'.sections = asm.sections
          /\ asm'.current_section = asm.current_section
          /\ ~is_label(CurrentRow) => asm'.errors = asm.errors ]_vars

\* `.wrong` then `foo: hlt`: the label is still outside any section.
C31_Witness ==
    /\ apc = "first" /\ idx = 3 /\ Len(src) >= 2
    /\ IsUnknownHeader(src[1]) /\ is_label(src[2])
    /\ asm.sections = <<>>
    /\ asm.current_section = None
    /\ asm.errors = << NoSegmentDeclarationFound(1) >>

\* The rows that are a directive with operands other than `.asciiz`.
UnknownDirectiveRows == { k \in DOMAIN src : IsUnknownDirective(src[k]) }
SymbolNamesOf(symbols) == { symbols[k].name : k \in DOMAIN symbols }

\* C32: the first pass over a directive row with an operand whose name is
\* not `asciiz` appends UnknownDirectiveFound with the directive's name to
\* the errors and changes no symbol's offset, not the read-only buffer and
\* not the sections list; assemble does not return Ok for a program with
\* such a row.
C32_UnknownDirectiveRecorded ==
    [][ /\ (InFirstPass /\ IsUnknownDirective(CurrentRow)) =>
             /\ Len(asm'.errors) > Len(asm.errors)
             /\ asm'.errors[Len(asm'.errors)]
                   = UnknownDirectiveFound(CurrentRow.directive.val.name)
             /\ \A n \in SymbolNamesOf(asm'.symbols) :
                   symbol_value(asm'.symbols, n) = symbol_value(asm.symbols, n)
             /\ asm'.ro = asm.ro /\ asm'.ro_offset = asm.ro_offset
             /\ asm'.sections = asm.sections
        /\ (result'.tag = "Ok") => UnknownDirectiveRows = {} ]_vars

\* `.data`, `.word #1`, `.code` was rejected for its `.word`.
C32_Witness ==
    /\ apc = "done"
    /\ Len(src) = 3 /\ UnknownDirectiveRows = {2}
    /\ Cardinality(SectionHeaderRows) = 2
    /\ result = [tag |-> "Err", val |-> << UnknownDirectiveFound(T_word) >>]

\* C33: a second call of assemble on the same Assembler, with a source the
\* first call assembled, returns Ok with the bytes the first call returned.
C33_AssembleRepeatable ==
    (apc = "done" /\ fn_arg.kind = "Bytes") =>
        result = [tag |-> "Ok", val |-> fn_arg.val]

\* The VM is at rest after a step that halted on the byte before pc, which
\* is HLT or no opcode.
HaltedOnOpcode ==
    /\ vpc = "halted"
    /\ vm.pc > 0 /\ InProgram(vm, vm.pc - 1)
    /\ OpcodeFromU8(ProgramAt(vm, vm.pc - 1)) \in {"HLT", "IGL"}

\* C34: halting is sticky.  Once a step has halted on HLT or on an
\* unrecognised opcode, whatever is called next leaves registers, pc, heap,
\* remainder and equal_flag as they are: no instruction after the halting
\* one is executed.
C34_HaltingIsSticky ==
    [][ HaltedOnOpcode => vm' = vm ]_vars

\* The operand bytes the arm of an opcode reads after the opcode byte.
OperandBytesRead(op) ==
    IF op = "LOAD" \/ op \in ThreeRegisterOps THEN 3
    ELSE IF op \in OneRegisterOps THEN 1
    ELSE 0
\* The indices of the program the next step of the VM reads.
IndicesRead(v) ==
    IF UsizeGE(v.pc, Len(v.program)) THEN {}
    ELSE { v.pc + k : k \in 0..OperandBytesRead(OpcodeFromU8(ProgramAt(v, v.pc))) }
\* The image holds no jump opcode.
NoJumpIn(program) ==
    \A k \in DOMAIN program :
        OpcodeFromU8(program[k]) \notin {"JMP", "JMPF", "JMPB", "JEQ", "JNEQ"}

\* C35: while a fresh VM runs an image that assemble returned and that holds
\* no jump opcode, every byte of the program the next step reads, opcode or
\* operand, lies at an index below the length of the program.
C35_ReadsInsideImage ==
    (/\ vpc = "running" /\ result.tag = "Ok"
     /\ vm.program = result.val /\ NoJumpIn(vm.program)) =>
        \A k \in IndicesRead(vm) : InProgram(vm, k)

\* C36: the second pass only emits code: a step of it changes none of the
\* symbol table, the read-only buffer, ro_offset, the sections list, the
\* current section and the error list, so a successful assemble leaves one
\* section entry per recognised section header.
C36_SecondPassOnlyEmits ==
    [][ InSecondPass =>
            /\ asm'.symbols = asm.symbols
            /\ asm'.ro = asm.ro
            /\ asm'.ro_offset = asm.ro_offset
            /\ asm'.sections = asm.sections
            /\ asm'.current_section = asm.current_section
            /\ asm'.errors = asm.errors ]_vars

\* The strings the rows of the source declare under label name.
DeclaredStrings(name) ==
    { StringOf(src[k]) : k \in { j \in DOMAIN src :
                                   /\ IsLabelledAsciizRow(src[j])
                                   /\ src[j].label.val.name = name } }
AllDeclaredStrings ==
    { StringOf(src[k]) : k \in { j \in DOMAIN src : IsLabelledAsciizRow(src[j]) } }
\* The offsets of the read-only buffer at which a string starts: 0 and the
\* offset after every zero byte.
StringStarts(ro) ==
    { o \in 0..(Len(ro) - 1) : o = 0 \/ ro[o] = 0 }
\* The bytes from offset o up to the next zero byte.
StringAt(ro, o) ==
    LET end == CHOOSE e \in (o + 1)..Len(ro) :
                   /\ ro[e] = 0
                   /\ \A j \in (o + 1)..(e - 1) : ro[j] # 0
    IN  SubSeq(ro, o + 1, end - 1)
StringSymbols == { k \in DOMAIN asm.symbols : IsSome(asm.symbols[k].offset) }

\* C37: in every state of the Assembler ro_offset is the length of the
\* read-only buffer, the buffer is a concatenation of declared strings each
\* followed by one zero byte, and the offset of every symbol that has one is
\* the offset of the first byte of a string declared under its name.
C37_ReadOnlyBufferShape ==
    /\ asm.ro_offset = Len(asm.ro)
    /\ asm.ro # <<>> => asm.ro[Len(asm.ro)] = 0
    /\ \A o \in StringStarts(asm.ro) : StringAt(asm.ro, o) \in AllDeclaredStrings
    /\ \A k \in StringSymbols :
          LET o == asm.symbols[k].offset.val IN
          /\ o \in StringStarts(asm.ro)
          /\ StringAt(asm.ro, o) \in DeclaredStrings(asm.symbols[k].name)

\* `foo: .asciiz 'Hi'` has been declared twice in a section: the buffer
\* holds the string twice and foo points at the second copy.
C37_Witness ==
    /\ IsSome(asm.current_section)
    /\ asm.ro = T_Hi \o <<0>> \o T_Hi \o <<0>>
    /\ symbol_value(asm.symbols, T_foo) = Some(Len(T_Hi) + 1)

\* C39: a labelled row that the first pass meets before any section header
\* is rejected with NoSegmentDeclarationFound and skipped as a whole: the
\* step adds no symbol and leaves the read-only buffer and ro_offset as they
\* were, also when the row is an `.asciiz` declaration.
C39_RejectedRowSkipped ==
    [][ (InFirstPass /\ is_label(CurrentRow) /\ ~IsSome(asm.current_section)) =>
            /\ Len(ErrorsOfKind("NoSegmentDeclarationFound"))' =
                   Len(ErrorsOfKind("NoSegmentDeclarationFound")) + 1
            /\ asm'.symbols = asm.symbols
            /\ asm'.ro = asm.ro
            /\ asm'.ro_offset = asm.ro_offset ]_vars

\* VM::run to its end, on programs of up to three instructions: the loop of
\* run takes its next turn as long as execute_instruction has not returned
\* true.
TermValues == {0, 7, I32Max}
TermPrograms ==
    StepPrograms
    \cup { first \o second \o third :
             first \in PackedInstructions({"ALOC", "INC", "DEC"}),
             second \in PackedInstructions({"ALOC", "INC", "DEC"}),
             third \in Instructions }
InitTerm ==
    /\ InitAsm
    /\ fn_arg = NoArg /\ fn_ret = NoArg
    /\ build \in {"debug", "release"}
    /\ vpc = "running"
    /\ \E x \in TermValues, flag \in BOOLEAN, code \in TermPrograms :
          vm = [VMNew EXCEPT
                  !.registers = [r \in 0..(NumRegisters - 1) |->
                                    IF r = 0 THEN x ELSE IF r = 1 THEN 7 ELSE 0],
                  !.program = prepend_header(code),
                  !.equal_flag = flag]

NextTerm == VMRunStep

SpecTerm == InitTerm /\ [][NextTerm]_vars /\ WF_vars(VMRunStep)

JumpOps == {"JMP", "JMPF", "JMPB", "JEQ", "JNEQ"}
\* The next step decodes a jump opcode.
DecodesJump ==
    vpc = "running" /\ InProgram(vm, vm.pc) /\ DecodedOpcode \in JumpOps
\* run has returned, or the process has ended in a panic.
RunOver == vpc \in {"halted", "panic"}

\* C38: run terminates on a program in which no jump opcode is decoded.  A
\* step of any other opcode that does not end the run strictly increases pc,
\* and a run reaches its end unless it decodes a jump (or an ALOC that would
\* grow the heap past MaxHeap).
C38_RunTerminates ==
    /\ [][ (vpc = "running" /\ ~DecodesJump /\ vpc' = "running") =>
               vm'.pc > vm.pc ]_vars
    /\ <>(RunOver \/ DecodesJump \/ ~AllocWithinBound(vm))

\* `inc`, `dec` and `add $0 $1 $2` have run and pc has reached the end of
\* the program, where the run halted.
C38_Witness ==
    /\ vpc = "halted"
    /\ Len(vm.program) = PIE_HEADER_LENGTH + 9
    /\ vm.pc = Len(vm.program)
    /\ OpcodeFromU8(vm.program[PIE_HEADER_LENGTH + 2]) = "INC"
    /\ OpcodeFromU8(vm.program[PIE_HEADER_LENGTH + 4]) = "DEC"
    /\ OpcodeFromU8(vm.program[PIE_HEADER_LENGTH + 6]) = "ADD"

====
